---- MODULE Spec2Model ----
(***************************************************************************)
(* RTSPStream (src/stream/rtsp.py): a background reader loop that opens a  *)
(* transport, decodes frames and publishes the latest one under a lock,    *)
(* with exponential backoff on failure; start() and stop() run on a        *)
(* controller thread, get_latest_frame() on reader threads.                *)
(*                                                                         *)
(* Program labels are line numbers of rtsp.py: "L82" is the while test of  *)
(* _reader_loop, "S41" the join of stop(), "R51" the first read of         *)
(* get_latest_frame().  "L88" is a thread inside cv2.VideoCapture(url),    *)
(* "L107r" a thread inside _cap.read(), "L103" and "L117" a thread inside  *)
(* time.sleep(backoff).                                                    *)
(*                                                                         *)
(* Time is counted in whole seconds by Tick.  A step that does not block   *)
(* takes no time; the blocking calls (open, read, sleep, join) let time    *)
(* pass, open and read for as long as the transport likes.                 *)
(***************************************************************************)
EXTENDS Integers, Sequences, FiniteSets, TLC

\* ---------------------------------------------------------------- bounds
MaxThreads == 2      \* loop threads that can exist at a time
MaxOpens   == 2      \* successful opens of the transport
MaxReads   == 2      \* successful decodes
MaxFails   == 6      \* failures in a row (failed opens, failed decodes)
NumReaders == 1      \* threads calling get_latest_frame()

\* ------------------------------------------------------ program constants
initial_backoff == 1     \* rtsp.py:79 and 98
max_backoff     == 16    \* rtsp.py:80
join_timeout    == 5     \* rtsp.py:41

None    == 0
NoFrame == <<>>
Free    == <<>>
Threads == 1..MaxThreads
Readers == 1..NumReaders

\* The arrays _cap.read() can return: <<h, n>> is the array that the n-th
\* successful decode, made on handle h, allocated.
Buffers == (1..MaxOpens) \X (1..MaxReads)

Min(a, b) == IF a < b THEN a ELSE b

VARIABLES
    \* fields of RTSPStream (rtsp.py:12-27):
    \*   should_reconnect, _thread, _stop_event, _lock, _latest_frame,
    \*   _frame_id, _cap, _timestamp, _start_time, _total_frames,
    \*   _reconnect_count, _connected
    \* _reader_loop, per thread, its position and locals:
    \*   pc, backoff, cap, frame, now; remaining (seconds of sleep left),
    \*   reading (the handle a read was called on), readOpen (whether that
    \*   handle was open when the read was called)
    \* the controller thread running start() and stop():
    \*   cpc, joinLeft (seconds of join timeout left)
    \* the reader threads running get_latest_frame():
    \*   rpc, rlocal (frame_ref, frame_id, ts), snapshot (the last result)
    \* the transport:
    \*   openHandles (opened and not released), nOpens, nReads (successes)
    \* history:
    \*   sleepAtStop (the loop was asleep when stop() set the event),
    \*   stopReturned (stop() has returned and start() was not called since),
    \*   slept (the delays slept since the backoff was last reset),
    \*   attempts (open attempts of the loop), failed (the failure that
    \*   ended a loop without reconnection), startId (_frame_id when the
    \*   loop began), firstFrameOpen (nOpens when the first frame was
    \*   published), published (every triple a publish has written),
    \*   countAtPublish (_reconnect_count when frame k was published)
    \* memory:
    \*   pixels (what each decoded array holds now), handed (what the array
    \*   of a snapshot held when get_latest_frame() returned it)
    should_reconnect, _thread, _stop_event, _lock, _latest_frame,
    _frame_id, _cap, _timestamp, _start_time, _total_frames,
    _reconnect_count, _connected, pc, backoff, cap, frame, now, remaining,
    reading, readOpen, cpc, joinLeft, rpc, rlocal, snapshot, openHandles,
    nOpens, nReads, sleepAtStop, stopReturned, slept, attempts, failed,
    startId, firstFrameOpen, published, countAtPublish, pixels, handed

vars == <<should_reconnect, _thread, _stop_event, _lock, _latest_frame,
          _frame_id, _cap, _timestamp, _start_time, _total_frames,
          _reconnect_count, _connected, pc, backoff, cap, frame, now,
          remaining, reading, readOpen, cpc, joinLeft, rpc, rlocal, snapshot,
          openHandles, nOpens, nReads, sleepAtStop, stopReturned, slept,
          attempts, failed, startId, firstFrameOpen, published,
          countAtPublish, pixels, handed>>

\* base.py:7-12, FrameSnapshot
FrameSnapshot(f, i, ts, rc) ==
    [frame |-> f, frame_id |-> i, monotonic_timestamp |-> ts,
     reconnect_count |-> rc]

\* The part of a snapshot that one publish writes.
Triple(s) == <<s.frame, s.frame_id, s.monotonic_timestamp>>

\* The fields read and written without the lock.
LockFree_Unguarded == TRUE

\* threading.Lock: acquire() goes through only when nobody holds the lock.
LockFree == _lock = Free

\* threading.Thread.is_alive(): started and not yet returned or died.
\* A thread that has ended leaves its place in Threads to the next one.
IsAlive(t) == pc[t] \notin {"unborn", "done", "crashed"}

Alive == {t \in Threads : IsAlive(t)}

\* time.perf_counter(), read in units of one decode: the clock is monotonic
\* and no slower than the decodes, so successive frames get later readings.
perf_counter == nReads

\* cv2.VideoCapture.isOpened()
isOpened(h) == h \in openHandles

\* rtsp.py:11-27, __init__
Init ==
    /\ should_reconnect \in BOOLEAN
    /\ _thread = None
    /\ _stop_event = FALSE
    /\ _lock = Free
    /\ _latest_frame = NoFrame
    /\ _frame_id = 0
    /\ _cap = None
    /\ _timestamp = 0
    /\ _start_time = 0
    /\ _total_frames = 0
    /\ _reconnect_count = 0
    /\ _connected = FALSE
    /\ pc = [t \in Threads |-> "unborn"]
    /\ backoff = [t \in Threads |-> 0]
    /\ cap = [t \in Threads |-> None]
    /\ frame = [t \in Threads |-> NoFrame]
    /\ now = [t \in Threads |-> 0]
    /\ remaining = [t \in Threads |-> 0]
    /\ reading = [t \in Threads |-> None]
    /\ readOpen = [t \in Threads |-> FALSE]
    /\ cpc = "idle"
    /\ joinLeft = 0
    /\ rpc = [r \in Readers |-> "idle"]
    /\ rlocal = [r \in Readers |-> FrameSnapshot(NoFrame, 0, 0, 0)]
    /\ snapshot = [r \in Readers |-> FrameSnapshot(NoFrame, 0, 0, 0)]
    /\ openHandles = {}
    /\ nOpens = 0
    /\ nReads = 0
    /\ sleepAtStop = FALSE
    /\ stopReturned = FALSE
    /\ slept = [t \in Threads |-> <<>>]
    /\ attempts = [t \in Threads |-> 0]
    /\ failed = [t \in Threads |-> "none"]
    /\ startId = [t \in Threads |-> 0]
    /\ firstFrameOpen = 0
    /\ published = {<<NoFrame, 0, 0>>}
    /\ countAtPublish = <<>>
    /\ pixels = [b \in Buffers |-> 0]
    /\ handed = [r \in Readers |-> 0]

\* ------------------------------------------------------------- start()
\* start() without the is_alive() test.
ThreadRunning_Unchecked == FALSE

\* rtsp.py:30, the test that makes start() idempotent.
ThreadRunning == _thread # None /\ IsAlive(_thread)

\* The controller calls start().
StartCall ==
    /\ cpc = "idle"
    /\ cpc' = "S30"
    /\ stopReturned' = FALSE
    /\ UNCHANGED <<should_reconnect, _thread, _stop_event, _lock,
                   _latest_frame, _frame_id, _cap, _timestamp, _start_time,
                   _total_frames, _reconnect_count, _connected, pc, backoff,
                   cap, frame, now, remaining, reading, readOpen, joinLeft,
                   rpc, rlocal, snapshot, openHandles, nOpens, nReads,
                   sleepAtStop, slept, attempts, failed, startId,
                   firstFrameOpen, published, countAtPublish, pixels, handed>>

\* A start() that begins every run with fresh counters and no frame.
StartBody_Resets ==
    /\ cpc = "S30"
    /\ IF ThreadRunning
       THEN UNCHANGED <<_stop_event, _start_time, _thread, pc, backoff,
                        slept, attempts, failed, startId, _latest_frame,
                        _frame_id, _total_frames, _reconnect_count>>
       ELSE \E t \in Threads :
              /\ ~IsAlive(t)
              /\ \A u \in Threads : ~IsAlive(u) => t <= u
              /\ _stop_event' = FALSE
              /\ _start_time' = perf_counter
              /\ _thread' = t
              /\ _latest_frame' = NoFrame
              /\ _frame_id' = 0
              /\ _total_frames' = 0
              /\ _reconnect_count' = 0
              /\ pc' = [pc EXCEPT ![t] = "L82"]
              /\ backoff' = [backoff EXCEPT ![t] = initial_backoff]
              /\ slept' = [slept EXCEPT ![t] = <<>>]
              /\ attempts' = [attempts EXCEPT ![t] = 0]
              /\ failed' = [failed EXCEPT ![t] = "none"]
              /\ startId' = [startId EXCEPT ![t] = 0]
    /\ cpc' = "idle"
    /\ UNCHANGED <<should_reconnect, _lock, _cap, _timestamp, _connected,
                   cap, frame, now, remaining, reading, readOpen, joinLeft,
                   rpc, rlocal, snapshot, openHandles, nOpens, nReads,
                   sleepAtStop, stopReturned, firstFrameOpen, published,
                   countAtPublish, pixels, handed>>

\* rtsp.py:30-36 and 79-80: return if the thread is alive; otherwise clear
\* the event, take the start time and start a thread, which begins
\* _reader_loop with backoff = 1.0.
StartBody ==
    /\ cpc = "S30"
    /\ IF ThreadRunning
       THEN UNCHANGED <<_stop_event, _start_time, _thread, pc, backoff,
                        slept, attempts, failed, startId>>
       ELSE \E t \in Threads :
              /\ ~IsAlive(t)
              /\ \A u \in Threads : ~IsAlive(u) => t <= u
              /\ _stop_event' = FALSE
              /\ _start_time' = perf_counter
              /\ _thread' = t
              /\ pc' = [pc EXCEPT ![t] = "L82"]
              /\ backoff' = [backoff EXCEPT ![t] = initial_backoff]
              /\ slept' = [slept EXCEPT ![t] = <<>>]
              /\ attempts' = [attempts EXCEPT ![t] = 0]
              /\ failed' = [failed EXCEPT ![t] = "none"]
              /\ startId' = [startId EXCEPT ![t] = _frame_id]
    /\ cpc' = "idle"
    /\ UNCHANGED <<should_reconnect, _lock, _latest_frame, _frame_id, _cap,
                   _timestamp, _total_frames, _reconnect_count, _connected,
                   cap, frame, now, remaining, reading, readOpen, joinLeft,
                   rpc, rlocal, snapshot, openHandles, nOpens, nReads,
                   sleepAtStop, stopReturned, firstFrameOpen, published,
                   countAtPublish, pixels, handed>>

\* -------------------------------------------------------------- stop()
Sleeping(t) == pc[t] \in {"L103", "L117"}

\* rtsp.py:39-40: set the event, then join if there is a thread.
StopCall ==
    /\ cpc = "idle"
    /\ _stop_event' = TRUE
    /\ cpc' = IF _thread # None THEN "S41" ELSE "S43"
    /\ joinLeft' = IF _thread # None THEN join_timeout ELSE 0
    /\ sleepAtStop' = (_thread # None /\ Sleeping(_thread))
    /\ stopReturned' = FALSE
    /\ UNCHANGED <<should_reconnect, _thread, _lock, _latest_frame,
                   _frame_id, _cap, _timestamp, _start_time, _total_frames,
                   _reconnect_count, _connected, pc, backoff, cap, frame,
                   now, remaining, reading, readOpen, rpc, rlocal, snapshot,
                   openHandles, nOpens, nReads, slept, attempts, failed,
                   startId, firstFrameOpen, published, countAtPublish,
                   pixels, handed>>

\* rtsp.py:41: join returns because the thread has ended.
JoinEnded ==
    /\ cpc = "S41"
    /\ ~IsAlive(_thread)
    /\ cpc' = "S43"
    /\ joinLeft' = 0
    /\ UNCHANGED <<should_reconnect, _thread, _stop_event, _lock,
                   _latest_frame, _frame_id, _cap, _timestamp, _start_time,
                   _total_frames, _reconnect_count, _connected, pc, backoff,
                   cap, frame, now, remaining, reading, readOpen, rpc,
                   rlocal, snapshot, openHandles, nOpens, nReads,
                   sleepAtStop, stopReturned, slept, attempts, failed,
                   startId, firstFrameOpen, published, countAtPublish,
                   pixels, handed>>

\* rtsp.py:41: join returns because the timeout has expired.
JoinExpired ==
    /\ cpc = "S41"
    /\ IsAlive(_thread)
    /\ joinLeft = 0
    /\ cpc' = "S43"
    /\ UNCHANGED <<should_reconnect, _thread, _stop_event, _lock,
                   _latest_frame, _frame_id, _cap, _timestamp, _start_time,
                   _total_frames, _reconnect_count, _connected, pc, backoff,
                   cap, frame, now, remaining, reading, readOpen, joinLeft,
                   rpc, rlocal, snapshot, openHandles, nOpens, nReads,
                   sleepAtStop, stopReturned, slept, attempts, failed,
                   startId, firstFrameOpen, published, countAtPublish,
                   pixels, handed>>

\* rtsp.py:43: if self._cap
StopTestCap ==
    /\ cpc = "S43"
    /\ cpc' = IF _cap # None THEN "S44" ELSE "S47"
    /\ sleepAtStop' = FALSE
    /\ UNCHANGED <<should_reconnect, _thread, _stop_event, _lock,
                   _latest_frame, _frame_id, _cap, _timestamp, _start_time,
                   _total_frames, _reconnect_count, _connected, pc, backoff,
                   cap, frame, now, remaining, reading, readOpen, joinLeft,
                   rpc, rlocal, snapshot, openHandles, nOpens, nReads,
                   stopReturned, slept, attempts, failed, startId,
                   firstFrameOpen, published, countAtPublish, pixels, handed>>

\* rtsp.py:44: self._cap.release(); if _cap is None by now, AttributeError
\* leaves stop() before line 47.
StopRelease ==
    /\ cpc = "S44"
    /\ IF _cap = None
       THEN /\ cpc' = "idle"
            /\ UNCHANGED openHandles
       ELSE /\ cpc' = "S45"
            /\ openHandles' = openHandles \ {_cap}
    /\ UNCHANGED <<should_reconnect, _thread, _stop_event, _lock,
                   _latest_frame, _frame_id, _cap, _timestamp, _start_time,
                   _total_frames, _reconnect_count, _connected, pc, backoff,
                   cap, frame, now, remaining, reading, readOpen, joinLeft,
                   rpc, rlocal, snapshot, nOpens, nReads, sleepAtStop,
                   stopReturned, slept, attempts, failed, startId,
                   firstFrameOpen, published, countAtPublish, pixels, handed>>

\* rtsp.py:45: self._cap = None
StopClearCap ==
    /\ cpc = "S45"
    /\ _cap' = None
    /\ cpc' = "S47"
    /\ UNCHANGED <<should_reconnect, _thread, _stop_event, _lock,
                   _latest_frame, _frame_id, _timestamp, _start_time,
                   _total_frames, _reconnect_count, _connected, pc, backoff,
                   cap, frame, now, remaining, reading, readOpen, joinLeft,
                   rpc, rlocal, snapshot, openHandles, nOpens, nReads,
                   sleepAtStop, stopReturned, slept, attempts, failed,
                   startId, firstFrameOpen, published, countAtPublish,
                   pixels, handed>>

\* rtsp.py:47: self._connected = False, and stop() returns.
StopDisconnect ==
    /\ cpc = "S47"
    /\ _connected' = FALSE
    /\ cpc' = "idle"
    /\ stopReturned' = TRUE
    /\ UNCHANGED <<should_reconnect, _thread, _stop_event, _lock,
                   _latest_frame, _frame_id, _cap, _timestamp, _start_time,
                   _total_frames, _reconnect_count, pc, backoff, cap, frame,
                   now, remaining, reading, readOpen, joinLeft, rpc, rlocal,
                   snapshot, openHandles, nOpens, nReads, sleepAtStop, slept,
                   attempts, failed, startId, firstFrameOpen, published,
                   countAtPublish, pixels, handed>>

\* ------------------------------------------------------- _reader_loop
\* The doubling without the ceiling.
NextBackoff_Uncapped(b) == b * 2

\* rtsp.py:104 and 118: backoff = min(backoff * 2, max_backoff)
NextBackoff(b) == Min(b * 2, max_backoff)

\* Every successful open counted, the first one too.
IsReconnect_Always == TRUE

\* rtsp.py:95: if self._total_frames > 0
IsReconnect == _total_frames > 0

\* The loop retrying whatever should_reconnect says.
GiveUp_Never == FALSE

\* rtsp.py:101 and 114: if not self.should_reconnect: break
GiveUp == ~should_reconnect

\* Failures in a row since the backoff was last reset.
Streak(t) == Len(slept[t])

\* The transport may fail as long as the loop's streak is below the bound;
\* a failure that ends the loop may always happen.
MayFail(t) == GiveUp \/ Streak(t) < MaxFails

\* The thread ends (returns, or dies of an exception); its locals are gone.
EndThread(t, how) ==
    /\ pc' = [pc EXCEPT ![t] = how]
    /\ backoff' = [backoff EXCEPT ![t] = 0]
    /\ slept' = [slept EXCEPT ![t] = <<>>]
    /\ attempts' = [attempts EXCEPT ![t] = 0]

\* rtsp.py:103 and 117: time.sleep(backoff) begins.
BeginSleep(t) ==
    /\ remaining' = [remaining EXCEPT ![t] = backoff[t]]
    /\ slept' = [slept EXCEPT ![t] = Append(@, backoff[t])]

\* rtsp.py:82: while not self._stop_event.is_set()
LoopTest(t) ==
    /\ pc[t] = "L82"
    /\ pc' = [pc EXCEPT ![t] = IF _stop_event THEN "L129" ELSE "L83"]
    /\ UNCHANGED <<should_reconnect, _thread, _stop_event, _lock,
                   _latest_frame, _frame_id, _cap, _timestamp, _start_time,
                   _total_frames, _reconnect_count, _connected, backoff, cap,
                   frame, now, remaining, reading, readOpen, cpc, joinLeft,
                   rpc, rlocal, snapshot, openHandles, nOpens, nReads,
                   sleepAtStop, stopReturned, slept, attempts, failed,
                   startId, firstFrameOpen, published, countAtPublish,
                   pixels, handed>>

\* rtsp.py:83: if self._cap is None or not self._cap.isOpened()
CapTest(t) ==
    /\ pc[t] = "L83"
    /\ pc' = [pc EXCEPT ![t] =
                IF _cap = None \/ ~isOpened(_cap) THEN "L84" ELSE "L107"]
    /\ UNCHANGED <<should_reconnect, _thread, _stop_event, _lock,
                   _latest_frame, _frame_id, _cap, _timestamp, _start_time,
                   _total_frames, _reconnect_count, _connected, backoff, cap,
                   frame, now, remaining, reading, readOpen, cpc, joinLeft,
                   rpc, rlocal, snapshot, openHandles, nOpens, nReads,
                   sleepAtStop, stopReturned, slept, attempts, failed,
                   startId, firstFrameOpen, published, countAtPublish,
                   pixels, handed>>

\* rtsp.py:84-88: self._connected = False, then the thread enters
\* cv2.VideoCapture(url) and blocks there.
OpenBegin(t) ==
    /\ pc[t] = "L84"
    /\ _connected' = FALSE
    /\ attempts' = [attempts EXCEPT ![t] = @ + 1]
    /\ pc' = [pc EXCEPT ![t] = "L88"]
    /\ UNCHANGED <<should_reconnect, _thread, _stop_event, _lock,
                   _latest_frame, _frame_id, _cap, _timestamp, _start_time,
                   _total_frames, _reconnect_count, backoff, cap, frame, now,
                   remaining, reading, readOpen, cpc, joinLeft, rpc, rlocal,
                   snapshot, openHandles, nOpens, nReads, sleepAtStop,
                   stopReturned, slept, failed, startId, firstFrameOpen,
                   published, countAtPublish, pixels, handed>>

\* rtsp.py:88-89: the open returns a handle that is open.
OpenOk(t) ==
    /\ pc[t] = "L88"
    /\ nOpens < MaxOpens
    /\ nOpens' = nOpens + 1
    /\ openHandles' = openHandles \cup {nOpens + 1}
    /\ cap' = [cap EXCEPT ![t] = nOpens + 1]
    /\ pc' = [pc EXCEPT ![t] = "L92"]
    /\ UNCHANGED <<should_reconnect, _thread, _stop_event, _lock,
                   _latest_frame, _frame_id, _cap, _timestamp, _start_time,
                   _total_frames, _reconnect_count, _connected, backoff,
                   frame, now, remaining, reading, readOpen, cpc, joinLeft,
                   rpc, rlocal, snapshot, nReads, sleepAtStop, stopReturned,
                   slept, attempts, failed, startId, firstFrameOpen,
                   published, countAtPublish, pixels, handed>>

\* rtsp.py:89-90 and 100-103: the open fails; break, or sleep(backoff).
OpenFail(t) ==
    /\ pc[t] = "L88"
    /\ MayFail(t)
    /\ IF GiveUp
       THEN /\ pc' = [pc EXCEPT ![t] = "L129"]
            /\ failed' = [failed EXCEPT ![t] = "open"]
            /\ UNCHANGED <<remaining, slept>>
       ELSE /\ pc' = [pc EXCEPT ![t] = "L103"]
            /\ BeginSleep(t)
            /\ UNCHANGED failed
    /\ UNCHANGED <<should_reconnect, _thread, _stop_event, _lock,
                   _latest_frame, _frame_id, _cap, _timestamp, _start_time,
                   _total_frames, _reconnect_count, _connected, backoff, cap,
                   frame, now, reading, readOpen, cpc, joinLeft, rpc, rlocal,
                   snapshot, openHandles, nOpens, nReads, sleepAtStop,
                   stopReturned, attempts, startId, firstFrameOpen,
                   published, countAtPublish, pixels, handed>>

\* rtsp.py:92: self._cap = cap
StoreCap(t) ==
    /\ pc[t] = "L92"
    /\ _cap' = cap[t]
    /\ cap' = [cap EXCEPT ![t] = None]
    /\ pc' = [pc EXCEPT ![t] = "L93"]
    /\ UNCHANGED <<should_reconnect, _thread, _stop_event, _lock,
                   _latest_frame, _frame_id, _timestamp, _start_time,
                   _total_frames, _reconnect_count, _connected, backoff,
                   frame, now, remaining, reading, readOpen, cpc, joinLeft,
                   rpc, rlocal, snapshot, openHandles, nOpens, nReads,
                   sleepAtStop, stopReturned, slept, attempts, failed,
                   startId, firstFrameOpen, published, countAtPublish,
                   pixels, handed>>

\* rtsp.py:93: self._connected = True
SetConnected(t) ==
    /\ pc[t] = "L93"
    /\ _connected' = TRUE
    /\ pc' = [pc EXCEPT ![t] = "L95"]
    /\ UNCHANGED <<should_reconnect, _thread, _stop_event, _lock,
                   _latest_frame, _frame_id, _cap, _timestamp, _start_time,
                   _total_frames, _reconnect_count, backoff, cap, frame, now,
                   remaining, reading, readOpen, cpc, joinLeft, rpc, rlocal,
                   snapshot, openHandles, nOpens, nReads, sleepAtStop,
                   stopReturned, slept, attempts, failed, startId,
                   firstFrameOpen, published, countAtPublish, pixels, handed>>

\* rtsp.py:95 and 98: a reconnection goes to the lock; a first connection
\* goes on with backoff = 1.0.
ReconnectTest(t) ==
    /\ pc[t] = "L95"
    /\ IF IsReconnect
       THEN /\ pc' = [pc EXCEPT ![t] = "L96"]
            /\ UNCHANGED <<backoff, slept>>
       ELSE /\ pc' = [pc EXCEPT ![t] = "L107"]
            /\ backoff' = [backoff EXCEPT ![t] = initial_backoff]
            /\ slept' = [slept EXCEPT ![t] = <<>>]
    /\ UNCHANGED <<should_reconnect, _thread, _stop_event, _lock,
                   _latest_frame, _frame_id, _cap, _timestamp, _start_time,
                   _total_frames, _reconnect_count, _connected, cap, frame,
                   now, remaining, reading, readOpen, cpc, joinLeft, rpc,
                   rlocal, snapshot, openHandles, nOpens, nReads,
                   sleepAtStop, stopReturned, attempts, failed, startId,
                   firstFrameOpen, published, countAtPublish, pixels, handed>>

\* rtsp.py:96: with self._lock
ReconnectLock(t) ==
    /\ pc[t] = "L96"
    /\ LockFree
    /\ _lock' = <<"loop", t>>
    /\ pc' = [pc EXCEPT ![t] = "L97"]
    /\ UNCHANGED <<should_reconnect, _thread, _stop_event, _latest_frame,
                   _frame_id, _cap, _timestamp, _start_time, _total_frames,
                   _reconnect_count, _connected, backoff, cap, frame, now,
                   remaining, reading, readOpen, cpc, joinLeft, rpc, rlocal,
                   snapshot, openHandles, nOpens, nReads, sleepAtStop,
                   stopReturned, slept, attempts, failed, startId,
                   firstFrameOpen, published, countAtPublish, pixels, handed>>

\* A reconnect that also starts frame_id over.
ReconnectCount_ResetsId(t) ==
    /\ pc[t] = "L97"
    /\ _reconnect_count' = _reconnect_count + 1
    /\ _frame_id' = 0
    /\ _lock' = Free
    /\ backoff' = [backoff EXCEPT ![t] = initial_backoff]
    /\ slept' = [slept EXCEPT ![t] = <<>>]
    /\ pc' = [pc EXCEPT ![t] = "L107"]
    /\ UNCHANGED <<should_reconnect, _thread, _stop_event, _latest_frame,
                   _cap, _timestamp, _start_time, _total_frames, _connected,
                   cap, frame, now, remaining, reading, readOpen, cpc,
                   joinLeft, rpc, rlocal, snapshot, openHandles, nOpens,
                   nReads, sleepAtStop, stopReturned, attempts, failed,
                   startId, firstFrameOpen, published, countAtPublish,
                   pixels, handed>>

\* rtsp.py:97-98: self._reconnect_count += 1, leave the lock, backoff = 1.0
ReconnectCount(t) ==
    /\ pc[t] = "L97"
    /\ _reconnect_count' = _reconnect_count + 1
    /\ _lock' = Free
    /\ backoff' = [backoff EXCEPT ![t] = initial_backoff]
    /\ slept' = [slept EXCEPT ![t] = <<>>]
    /\ pc' = [pc EXCEPT ![t] = "L107"]
    /\ UNCHANGED <<should_reconnect, _thread, _stop_event, _latest_frame,
                   _frame_id, _cap, _timestamp, _start_time, _total_frames,
                   _connected, cap, frame, now, remaining, reading, readOpen,
                   cpc, joinLeft, rpc, rlocal, snapshot, openHandles, nOpens,
                   nReads, sleepAtStop, stopReturned, attempts, failed,
                   startId, firstFrameOpen, published, countAtPublish,
                   pixels, handed>>

\* A wake-up that goes on to the next attempt without the while test.
Wake_SkipsTest(t) ==
    /\ Sleeping(t)
    /\ remaining[t] = 0
    /\ backoff' = [backoff EXCEPT ![t] = NextBackoff(@)]
    /\ pc' = [pc EXCEPT ![t] = "L83"]
    /\ UNCHANGED <<should_reconnect, _thread, _stop_event, _lock,
                   _latest_frame, _frame_id, _cap, _timestamp, _start_time,
                   _total_frames, _reconnect_count, _connected, cap, frame,
                   now, remaining, reading, readOpen, cpc, joinLeft, rpc,
                   rlocal, snapshot, openHandles, nOpens, nReads,
                   sleepAtStop, stopReturned, slept, attempts, failed,
                   startId, firstFrameOpen, published, countAtPublish,
                   pixels, handed>>

\* rtsp.py:103-105 and 117-119: the sleep is over; double the delay and
\* continue.
Wake(t) ==
    /\ Sleeping(t)
    /\ remaining[t] = 0
    /\ backoff' = [backoff EXCEPT ![t] = NextBackoff(@)]
    /\ pc' = [pc EXCEPT ![t] = "L82"]
    /\ UNCHANGED <<should_reconnect, _thread, _stop_event, _lock,
                   _latest_frame, _frame_id, _cap, _timestamp, _start_time,
                   _total_frames, _reconnect_count, _connected, cap, frame,
                   now, remaining, reading, readOpen, cpc, joinLeft, rpc,
                   rlocal, snapshot, openHandles, nOpens, nReads,
                   sleepAtStop, stopReturned, slept, attempts, failed,
                   startId, firstFrameOpen, published, countAtPublish,
                   pixels, handed>>

\* The lock taken before the decode call instead of after it.
ReadBegin_Locked(t) ==
    /\ pc[t] = "L107"
    /\ LockFree
    /\ _lock' = <<"loop", t>>
    /\ IF _cap = None
       THEN /\ EndThread(t, "crashed")
            /\ UNCHANGED <<reading, readOpen>>
       ELSE /\ pc' = [pc EXCEPT ![t] = "L107r"]
            /\ reading' = [reading EXCEPT ![t] = _cap]
            /\ readOpen' = [readOpen EXCEPT ![t] = isOpened(_cap)]
            /\ UNCHANGED <<backoff, slept, attempts>>
    /\ UNCHANGED <<should_reconnect, _thread, _stop_event, _latest_frame,
                   _frame_id, _cap, _timestamp, _start_time, _total_frames,
                   _reconnect_count, _connected, cap, frame, now, remaining,
                   cpc, joinLeft, rpc, rlocal, snapshot, openHandles, nOpens,
                   nReads, sleepAtStop, stopReturned, failed, startId,
                   firstFrameOpen, published, countAtPublish, pixels, handed>>

\* rtsp.py:107: self._cap.read() is called.  If _cap is None, AttributeError
\* ends the thread; otherwise the thread blocks in the read.
ReadBegin(t) ==
    /\ pc[t] = "L107"
    /\ IF _cap = None
       THEN /\ EndThread(t, "crashed")
            /\ UNCHANGED <<reading, readOpen>>
       ELSE /\ pc' = [pc EXCEPT ![t] = "L107r"]
            /\ reading' = [reading EXCEPT ![t] = _cap]
            /\ readOpen' = [readOpen EXCEPT ![t] = isOpened(_cap)]
            /\ UNCHANGED <<backoff, slept, attempts>>
    /\ UNCHANGED <<should_reconnect, _thread, _stop_event, _lock,
                   _latest_frame, _frame_id, _cap, _timestamp, _start_time,
                   _total_frames, _reconnect_count, _connected, cap, frame,
                   now, remaining, cpc, joinLeft, rpc, rlocal, snapshot,
                   openHandles, nOpens, nReads, sleepAtStop, stopReturned,
                   failed, startId, firstFrameOpen, published,
                   countAtPublish, pixels, handed>>

\* rtsp.py:107-109 and 121: the read returns a frame in a new array, now =
\* perf_counter().  A read called on a released handle returns no frame.
ReadOk(t) ==
    /\ pc[t] = "L107r"
    /\ readOpen[t]
    /\ nReads < MaxReads
    /\ nReads' = nReads + 1
    /\ frame' = [frame EXCEPT ![t] = <<reading[t], nReads + 1>>]
    /\ pixels' = [pixels EXCEPT ![<<reading[t], nReads + 1>>] = nReads + 1]
    /\ now' = [now EXCEPT ![t] = perf_counter']
    /\ reading' = [reading EXCEPT ![t] = None]
    /\ readOpen' = [readOpen EXCEPT ![t] = FALSE]
    /\ pc' = [pc EXCEPT ![t] = "L123"]
    /\ UNCHANGED <<should_reconnect, _thread, _stop_event, _lock,
                   _latest_frame, _frame_id, _cap, _timestamp, _start_time,
                   _total_frames, _reconnect_count, _connected, backoff, cap,
                   remaining, cpc, joinLeft, rpc, rlocal, snapshot,
                   openHandles, nOpens, sleepAtStop, stopReturned, slept,
                   attempts, failed, startId, firstFrameOpen, published,
                   countAtPublish, handed>>

\* rtsp.py:107-109 and 121: the read returns a frame in the array that an
\* earlier read on the same handle returned, a decoder that decodes into
\* one output array.
ReadOkReused(t) ==
    /\ pc[t] = "L107r"
    /\ readOpen[t]
    /\ nReads < MaxReads
    /\ \E b \in Buffers :
         /\ b[1] = reading[t]
         /\ pixels[b] # 0
         /\ frame' = [frame EXCEPT ![t] = b]
         /\ pixels' = [pixels EXCEPT ![b] = nReads + 1]
    /\ nReads' = nReads + 1
    /\ now' = [now EXCEPT ![t] = perf_counter']
    /\ reading' = [reading EXCEPT ![t] = None]
    /\ readOpen' = [readOpen EXCEPT ![t] = FALSE]
    /\ pc' = [pc EXCEPT ![t] = "L123"]
    /\ UNCHANGED <<should_reconnect, _thread, _stop_event, _lock,
                   _latest_frame, _frame_id, _cap, _timestamp, _start_time,
                   _total_frames, _reconnect_count, _connected, backoff, cap,
                   remaining, cpc, joinLeft, rpc, rlocal, snapshot,
                   openHandles, nOpens, sleepAtStop, stopReturned, slept,
                   attempts, failed, startId, firstFrameOpen, published,
                   countAtPublish, handed>>

\* rtsp.py:107-109: the read returns (False, None).
ReadFail(t) ==
    /\ pc[t] = "L107r"
    /\ MayFail(t)
    /\ failed' = [failed EXCEPT ![t] = IF GiveUp THEN "decode" ELSE @]
    /\ reading' = [reading EXCEPT ![t] = None]
    /\ readOpen' = [readOpen EXCEPT ![t] = FALSE]
    /\ pc' = [pc EXCEPT ![t] = "L110"]
    /\ UNCHANGED <<should_reconnect, _thread, _stop_event, _lock,
                   _latest_frame, _frame_id, _cap, _timestamp, _start_time,
                   _total_frames, _reconnect_count, _connected, backoff, cap,
                   frame, now, remaining, cpc, joinLeft, rpc, rlocal,
                   snapshot, openHandles, nOpens, nReads, sleepAtStop,
                   stopReturned, slept, attempts, startId, firstFrameOpen,
                   published, countAtPublish, pixels, handed>>

\* rtsp.py:110: self._cap.release(); if _cap is None by now, AttributeError
\* ends the thread.
LoopRelease(t) ==
    /\ pc[t] = "L110"
    /\ IF _cap = None
       THEN /\ EndThread(t, "crashed")
            /\ UNCHANGED openHandles
       ELSE /\ pc' = [pc EXCEPT ![t] = "L111"]
            /\ openHandles' = openHandles \ {_cap}
            /\ UNCHANGED <<backoff, slept, attempts>>
    /\ UNCHANGED <<should_reconnect, _thread, _stop_event, _lock,
                   _latest_frame, _frame_id, _cap, _timestamp, _start_time,
                   _total_frames, _reconnect_count, _connected, cap, frame,
                   now, remaining, reading, readOpen, cpc, joinLeft, rpc,
                   rlocal, snapshot, nOpens, nReads, sleepAtStop,
                   stopReturned, failed, startId, firstFrameOpen, published,
                   countAtPublish, pixels, handed>>

\* rtsp.py:111: self._cap = None
LoopClearCap(t) ==
    /\ pc[t] = "L111"
    /\ _cap' = None
    /\ pc' = [pc EXCEPT ![t] = "L112"]
    /\ UNCHANGED <<should_reconnect, _thread, _stop_event, _lock,
                   _latest_frame, _frame_id, _timestamp, _start_time,
                   _total_frames, _reconnect_count, _connected, backoff, cap,
                   frame, now, remaining, reading, readOpen, cpc, joinLeft,
                   rpc, rlocal, snapshot, openHandles, nOpens, nReads,
                   sleepAtStop, stopReturned, slept, attempts, failed,
                   startId, firstFrameOpen, published, countAtPublish,
                   pixels, handed>>

\* A disconnect that also drops the published frame.
LoopDisconnect_Clears(t) ==
    /\ pc[t] = "L112"
    /\ _connected' = FALSE
    /\ _latest_frame' = NoFrame
    /\ IF GiveUp
       THEN /\ pc' = [pc EXCEPT ![t] = "L129"]
            /\ UNCHANGED <<remaining, slept>>
       ELSE /\ pc' = [pc EXCEPT ![t] = "L117"]
            /\ BeginSleep(t)
    /\ UNCHANGED <<should_reconnect, _thread, _stop_event, _lock, _frame_id,
                   _cap, _timestamp, _start_time, _total_frames,
                   _reconnect_count, backoff, cap, frame, now, reading,
                   readOpen, cpc, joinLeft, rpc, rlocal, snapshot,
                   openHandles, nOpens, nReads, sleepAtStop, stopReturned,
                   attempts, failed, startId, firstFrameOpen, published,
                   countAtPublish, pixels, handed>>

\* rtsp.py:112-117: self._connected = False; break, or sleep(backoff).
LoopDisconnect(t) ==
    /\ pc[t] = "L112"
    /\ _connected' = FALSE
    /\ IF GiveUp
       THEN /\ pc' = [pc EXCEPT ![t] = "L129"]
            /\ UNCHANGED <<remaining, slept>>
       ELSE /\ pc' = [pc EXCEPT ![t] = "L117"]
            /\ BeginSleep(t)
    /\ UNCHANGED <<should_reconnect, _thread, _stop_event, _lock,
                   _latest_frame, _frame_id, _cap, _timestamp, _start_time,
                   _total_frames, _reconnect_count, backoff, cap, frame, now,
                   reading, readOpen, cpc, joinLeft, rpc, rlocal, snapshot,
                   openHandles, nOpens, nReads, sleepAtStop, stopReturned,
                   attempts, failed, startId, firstFrameOpen, published,
                   countAtPublish, pixels, handed>>

\* rtsp.py:123: with self._lock
PublishLock(t) ==
    /\ pc[t] = "L123"
    /\ LockFree
    /\ _lock' = <<"loop", t>>
    /\ pc' = [pc EXCEPT ![t] = "L124"]
    /\ UNCHANGED <<should_reconnect, _thread, _stop_event, _latest_frame,
                   _frame_id, _cap, _timestamp, _start_time, _total_frames,
                   _reconnect_count, _connected, backoff, cap, frame, now,
                   remaining, reading, readOpen, cpc, joinLeft, rpc, rlocal,
                   snapshot, openHandles, nOpens, nReads, sleepAtStop,
                   stopReturned, slept, attempts, failed, startId,
                   firstFrameOpen, published, countAtPublish, pixels, handed>>

\* rtsp.py:124: self._latest_frame = frame
PublishFrame(t) ==
    /\ pc[t] = "L124"
    /\ _latest_frame' = frame[t]
    /\ pc' = [pc EXCEPT ![t] = "L125"]
    /\ UNCHANGED <<should_reconnect, _thread, _stop_event, _lock, _frame_id,
                   _cap, _timestamp, _start_time, _total_frames,
                   _reconnect_count, _connected, backoff, cap, frame, now,
                   remaining, reading, readOpen, cpc, joinLeft, rpc, rlocal,
                   snapshot, openHandles, nOpens, nReads, sleepAtStop,
                   stopReturned, slept, attempts, failed, startId,
                   firstFrameOpen, published, countAtPublish, pixels, handed>>

\* rtsp.py:125: self._frame_id += 1
PublishId(t) ==
    /\ pc[t] = "L125"
    /\ _frame_id' = _frame_id + 1
    /\ pc' = [pc EXCEPT ![t] = "L126"]
    /\ UNCHANGED <<should_reconnect, _thread, _stop_event, _lock,
                   _latest_frame, _cap, _timestamp, _start_time,
                   _total_frames, _reconnect_count, _connected, backoff, cap,
                   frame, now, remaining, reading, readOpen, cpc, joinLeft,
                   rpc, rlocal, snapshot, openHandles, nOpens, nReads,
                   sleepAtStop, stopReturned, slept, attempts, failed,
                   startId, firstFrameOpen, published, countAtPublish,
                   pixels, handed>>

\* rtsp.py:126: self._timestamp = now
PublishTime(t) ==
    /\ pc[t] = "L126"
    /\ _timestamp' = now[t]
    /\ pc' = [pc EXCEPT ![t] = "L127"]
    /\ UNCHANGED <<should_reconnect, _thread, _stop_event, _lock,
                   _latest_frame, _frame_id, _cap, _start_time,
                   _total_frames, _reconnect_count, _connected, backoff, cap,
                   frame, now, remaining, reading, readOpen, cpc, joinLeft,
                   rpc, rlocal, snapshot, openHandles, nOpens, nReads,
                   sleepAtStop, stopReturned, slept, attempts, failed,
                   startId, firstFrameOpen, published, countAtPublish,
                   pixels, handed>>

\* A publish that leaves the lock without counting the frame.
PublishTotal_Uncounted(t) ==
    /\ pc[t] = "L127"
    /\ _lock' = Free
    /\ published' = published \cup {<<_latest_frame, _frame_id, _timestamp>>}
    /\ firstFrameOpen' = IF _total_frames = 0 THEN nOpens ELSE firstFrameOpen
    /\ frame' = [frame EXCEPT ![t] = NoFrame]
    /\ now' = [now EXCEPT ![t] = 0]
    /\ pc' = [pc EXCEPT ![t] = "L82"]
    /\ UNCHANGED <<should_reconnect, _thread, _stop_event, _latest_frame,
                   _frame_id, _cap, _timestamp, _start_time, _total_frames,
                   _reconnect_count, _connected, backoff, cap, remaining,
                   reading, readOpen, cpc, joinLeft, rpc, rlocal, snapshot,
                   openHandles, nOpens, nReads, sleepAtStop, stopReturned,
                   slept, attempts, failed, startId, countAtPublish, pixels,
                   handed>>

\* rtsp.py:127: self._total_frames += 1, and the lock is left.
PublishTotal(t) ==
    /\ pc[t] = "L127"
    /\ _total_frames' = _total_frames + 1
    /\ _lock' = Free
    /\ published' = published \cup {<<_latest_frame, _frame_id, _timestamp>>}
    /\ countAtPublish' = Append(countAtPublish, _reconnect_count)
    /\ firstFrameOpen' = IF _total_frames = 0 THEN nOpens ELSE firstFrameOpen
    /\ frame' = [frame EXCEPT ![t] = NoFrame]
    /\ now' = [now EXCEPT ![t] = 0]
    /\ pc' = [pc EXCEPT ![t] = "L82"]
    /\ UNCHANGED <<should_reconnect, _thread, _stop_event, _latest_frame,
                   _frame_id, _cap, _timestamp, _start_time,
                   _reconnect_count, _connected, backoff, cap, remaining,
                   reading, readOpen, cpc, joinLeft, rpc, rlocal, snapshot,
                   openHandles, nOpens, nReads, sleepAtStop, stopReturned,
                   slept, attempts, failed, startId, pixels, handed>>

\* rtsp.py:129: self._connected = False, and the thread returns.
LoopExit(t) ==
    /\ pc[t] = "L129"
    /\ _connected' = FALSE
    /\ EndThread(t, "done")
    /\ UNCHANGED <<should_reconnect, _thread, _stop_event, _lock,
                   _latest_frame, _frame_id, _cap, _timestamp, _start_time,
                   _total_frames, _reconnect_count, cap, frame, now,
                   remaining, reading, readOpen, cpc, joinLeft, rpc, rlocal,
                   snapshot, openHandles, nOpens, nReads, sleepAtStop,
                   stopReturned, failed, startId, firstFrameOpen, published,
                   countAtPublish, pixels, handed>>

\* --------------------------------------------------- get_latest_frame()
\* rtsp.py:50: with self._lock
ReaderLock(r) ==
    /\ rpc[r] = "idle"
    /\ LockFree
    /\ _lock' = <<"reader", r>>
    /\ rpc' = [rpc EXCEPT ![r] = "R51"]
    /\ UNCHANGED <<should_reconnect, _thread, _stop_event, _latest_frame,
                   _frame_id, _cap, _timestamp, _start_time, _total_frames,
                   _reconnect_count, _connected, pc, backoff, cap, frame,
                   now, remaining, reading, readOpen, cpc, joinLeft, rlocal,
                   snapshot, openHandles, nOpens, nReads, sleepAtStop,
                   stopReturned, slept, attempts, failed, startId,
                   firstFrameOpen, published, countAtPublish, pixels, handed>>

\* rtsp.py:51: frame_ref = self._latest_frame
ReaderFrame(r) ==
    /\ rpc[r] = "R51"
    /\ rlocal' = [rlocal EXCEPT ![r].frame = _latest_frame]
    /\ rpc' = [rpc EXCEPT ![r] = "R52"]
    /\ UNCHANGED <<should_reconnect, _thread, _stop_event, _lock,
                   _latest_frame, _frame_id, _cap, _timestamp, _start_time,
                   _total_frames, _reconnect_count, _connected, pc, backoff,
                   cap, frame, now, remaining, reading, readOpen, cpc,
                   joinLeft, snapshot, openHandles, nOpens, nReads,
                   sleepAtStop, stopReturned, slept, attempts, failed,
                   startId, firstFrameOpen, published, countAtPublish,
                   pixels, handed>>

\* rtsp.py:52: frame_id = self._frame_id
ReaderId(r) ==
    /\ rpc[r] = "R52"
    /\ rlocal' = [rlocal EXCEPT ![r].frame_id = _frame_id]
    /\ rpc' = [rpc EXCEPT ![r] = "R53"]
    /\ UNCHANGED <<should_reconnect, _thread, _stop_event, _lock,
                   _latest_frame, _frame_id, _cap, _timestamp, _start_time,
                   _total_frames, _reconnect_count, _connected, pc, backoff,
                   cap, frame, now, remaining, reading, readOpen, cpc,
                   joinLeft, snapshot, openHandles, nOpens, nReads,
                   sleepAtStop, stopReturned, slept, attempts, failed,
                   startId, firstFrameOpen, published, countAtPublish,
                   pixels, handed>>

\* rtsp.py:53: ts = self._timestamp
ReaderTime(r) ==
    /\ rpc[r] = "R53"
    /\ rlocal' = [rlocal EXCEPT ![r].monotonic_timestamp = _timestamp]
    /\ rpc' = [rpc EXCEPT ![r] = "R54"]
    /\ UNCHANGED <<should_reconnect, _thread, _stop_event, _lock,
                   _latest_frame, _frame_id, _cap, _timestamp, _start_time,
                   _total_frames, _reconnect_count, _connected, pc, backoff,
                   cap, frame, now, remaining, reading, readOpen, cpc,
                   joinLeft, snapshot, openHandles, nOpens, nReads,
                   sleepAtStop, stopReturned, slept, attempts, failed,
                   startId, firstFrameOpen, published, countAtPublish,
                   pixels, handed>>

\* rtsp.py:54-72: reconnects = self._reconnect_count, the lock is left and
\* the FrameSnapshot is returned; its frame is frame_ref.view(), a view of
\* the same array.
ReaderReturn(r) ==
    /\ rpc[r] = "R54"
    /\ handed' = [handed EXCEPT ![r] =
                    IF rlocal[r].frame = NoFrame
                    THEN 0 ELSE pixels[rlocal[r].frame]]
    /\ snapshot' = [snapshot EXCEPT ![r] =
                      [rlocal[r] EXCEPT !.reconnect_count = _reconnect_count]]
    /\ rlocal' = [rlocal EXCEPT ![r] = FrameSnapshot(NoFrame, 0, 0, 0)]
    /\ _lock' = Free
    /\ rpc' = [rpc EXCEPT ![r] = "idle"]
    /\ UNCHANGED <<should_reconnect, _thread, _stop_event, _latest_frame,
                   _frame_id, _cap, _timestamp, _start_time, _total_frames,
                   _reconnect_count, _connected, pc, backoff, cap, frame,
                   now, remaining, reading, readOpen, cpc, joinLeft,
                   openHandles, nOpens, nReads, sleepAtStop, stopReturned,
                   slept, attempts, failed, startId, firstFrameOpen,
                   published, countAtPublish, pixels>>

\* ----------------------------------------------------------------- time
\* A thread inside a blocking call; any other live thread is about to step.
Blocked(t) == pc[t] \in {"L88", "L107r"} \/ (Sleeping(t) /\ remaining[t] > 0)

\* One second passes: only while every live thread is inside a blocking
\* call (open, read, sleep, join) or idle.
Tick ==
    /\ \A t \in Threads : IsAlive(t) => Blocked(t)
    /\ \A r \in Readers : rpc[r] = "idle"
    /\ \/ cpc = "idle"
       \/ cpc = "S41" /\ IsAlive(_thread) /\ joinLeft > 0
    /\ remaining' = [t \in Threads |->
                       IF Sleeping(t) THEN remaining[t] - 1 ELSE remaining[t]]
    /\ joinLeft' = IF cpc = "S41" THEN joinLeft - 1 ELSE joinLeft
    /\ UNCHANGED <<should_reconnect, _thread, _stop_event, _lock,
                   _latest_frame, _frame_id, _cap, _timestamp, _start_time,
                   _total_frames, _reconnect_count, _connected, pc, backoff,
                   cap, frame, now, reading, readOpen, cpc, rpc, rlocal,
                   snapshot, openHandles, nOpens, nReads, sleepAtStop,
                   stopReturned, slept, attempts, failed, startId,
                   firstFrameOpen, published, countAtPublish, pixels, handed>>

\* ------------------------------------------------------------ behaviours
Loop(t) ==
    \/ LoopTest(t)
    \/ CapTest(t)
    \/ OpenBegin(t)
    \/ OpenOk(t)
    \/ OpenFail(t)
    \/ StoreCap(t)
    \/ SetConnected(t)
    \/ ReconnectTest(t)
    \/ ReconnectLock(t)
    \/ ReconnectCount(t)
    \/ Wake(t)
    \/ ReadBegin(t)
    \/ ReadOk(t)
    \/ ReadFail(t)
    \/ LoopRelease(t)
    \/ LoopClearCap(t)
    \/ LoopDisconnect(t)
    \/ PublishLock(t)
    \/ PublishFrame(t)
    \/ PublishId(t)
    \/ PublishTime(t)
    \/ PublishTotal(t)
    \/ LoopExit(t)

Stop ==
    \/ StopCall
    \/ JoinEnded
    \/ JoinExpired
    \/ StopTestCap
    \/ StopRelease
    \/ StopClearCap
    \/ StopDisconnect

Start ==
    \/ StartCall
    \/ StartBody

Reader(r) ==
    \/ ReaderLock(r)
    \/ ReaderFrame(r)
    \/ ReaderId(r)
    \/ ReaderTime(r)
    \/ ReaderReturn(r)

\* The engine and its controller.
Next ==
    \/ Start
    \/ Stop
    \/ \E t \in Threads : Loop(t)
    \/ Tick

Spec == Init /\ [][Next]_vars

\* ================================================================ claims

\* C1: start() is idempotent: at most one _reader_loop thread is alive at
\* any time, and a start() that finds the loop alive creates no thread,
\* leaves the event alone and opens nothing.
C1_StartIdempotent ==
    /\ Cardinality(Alive) <= 1
    /\ [][/\ Cardinality(Alive') <= 1
          /\ (cpc = "S30" /\ cpc' = "idle" /\ _thread # None
                /\ IsAlive(_thread))
               => /\ pc' = pc
                  /\ _thread' = _thread
                  /\ _stop_event' = _stop_event
                  /\ attempts' = attempts
                  /\ nOpens' = nOpens
                  /\ openHandles' = openHandles]_vars

\* C1: start() has been called while the loop is streaming its second frame.
C1_Witness ==
    /\ cpc = "S30"
    /\ _thread # None
    /\ pc[_thread] = "L107r"
    /\ _frame_id = 1

\* C2: once stop() has returned, and until start() is called again,
\* connected is false.
C2_DisconnectedAfterStop == stopReturned => ~_connected

\* C3: when stop() is invoked while the loop sleeps in backoff, the join
\* returns because the loop has ended, not because the timeout expired.
C3_SleepEndsBeforeJoinExpires ==
    (cpc = "S43" /\ sleepAtStop) => ~IsAlive(_thread)

\* C4: once stop() has returned and the loop has ended, every handle the
\* loop opened has been released and _cap holds none.
C4_NoHandleLeak ==
    (stopReturned /\ Alive = {}) => (openHandles = {} /\ _cap = None)

\* Threads that hold a decoded frame whose frame_id is not yet written.
Unpublished == {t \in Threads : pc[t] \in {"L123", "L124", "L125"}}

\* The successful decodes whose frame_id has been written.
Decoded == nReads - Cardinality(Unpublished)

\* C5: frame_id starts at 0, equals the number of successful decodes
\* published so far, and changes only by the +1 of rtsp.py:125; a reconnect
\* in between does not reset it.
C5_FrameIdCountsDecodes ==
    /\ _frame_id = 0
    /\ [][/\ _frame_id' = Decoded'
          /\ \/ _frame_id' = _frame_id
             \/ /\ _frame_id' = _frame_id + 1
                /\ \E t \in Threads : pc[t] = "L125" /\ pc'[t] = "L126"]_vars

\* C5: the second frame was decoded on the second connection, after a
\* counted reconnect, and carries frame_id 2.
C5_Witness ==
    /\ _frame_id = 2
    /\ _latest_frame = <<2, 2>>
    /\ _reconnect_count = 1

\* C6 as stated: after n >= 1 successful opens, reconnect_count = n - 1
\* (read while the loop is streaming, past rtsp.py:95-98).
C6_EveryLaterOpenCounts ==
    \A t \in Threads :
        (pc[t] = "L107r" /\ nOpens >= 1) => _reconnect_count = nOpens - 1

\* Successful opens that have not yet passed rtsp.py:95-97.
Uncounted == {t \in Threads : pc[t] \in {"L92", "L93", "L95", "L96", "L97"}}

\* C6 amended: reconnect_count is 0 up to and including the first
\* successful open and as long as no frame has been decoded; once a frame
\* has been decoded it is the number of successful opens made after the
\* first frame was published.
C6_ReconnectCount ==
    /\ nOpens <= 1 => _reconnect_count = 0
    /\ _total_frames = 0 => _reconnect_count = 0
    /\ _total_frames > 0 =>
         _reconnect_count = nOpens - firstFrameOpen - Cardinality(Uncounted)

\* C6: the transport was reopened after the first frame was published, and
\* the reopen was counted.
C6_Witness ==
    /\ nOpens = 2
    /\ firstFrameOpen = 1
    /\ _reconnect_count = 1

\* C8 as stated: without reconnection, a loop whose open failed ends with
\* frame_id = 0.
C8_OpenFailureLeavesIdZero ==
    \A t \in Threads :
        (~should_reconnect /\ failed[t] = "open") => _frame_id = 0

\* C8 amended: without reconnection a loop makes at most one open attempt
\* and never sleeps; after a failed open it is at its exit with connected
\* false and frame_id what it was when the loop began; after a failed
\* decode it only releases, clears and exits (or dies at the release), and
\* once it has ended and no stop() is under way the handle is released,
\* _cap is None and connected is false.
C8_FailureIsTerminal ==
    ~should_reconnect =>
      \A t \in Threads :
        /\ attempts[t] <= 1
        /\ ~Sleeping(t)
        /\ slept[t] = <<>>
        /\ failed[t] = "open" =>
             /\ pc[t] \in {"L129", "done"}
             /\ ~_connected
             /\ _frame_id = startId[t]
        /\ failed[t] = "decode" =>
             /\ pc[t] \in {"L110", "L111", "L112", "L129", "done", "crashed"}
             /\ (~IsAlive(t) /\ cpc = "idle") =>
                  (~_connected /\ _cap = None /\ openHandles = {})

\* C8: a loop started after a frame had been published has ended on a
\* failed open.
C8_Witness ==
    /\ ~should_reconnect
    /\ \E t \in Threads :
         failed[t] = "open" /\ pc[t] = "done" /\ _frame_id = 1

\* C9: the k-th delay slept since the backoff was last reset (by a
\* successful open, or at the start of the loop) is min(2^(k-1), 16); the
\* backoff a thread holds is the delay it sleeps, or the next one when it
\* is awake, so a decode leaves it alone; with no frame decoded yet,
\* reconnect_count is 0.
C9_BackoffSchedule ==
    \A t \in Alive :
        /\ \A k \in 1..Len(slept[t]) :
             slept[t][k] = Min(2^(k - 1) * initial_backoff, max_backoff)
        /\ backoff[t] = IF Sleeping(t)
                        THEN slept[t][Len(slept[t])]
                        ELSE Min(2^Len(slept[t]) * initial_backoff,
                                 max_backoff)
        /\ _total_frames = 0 => _reconnect_count = 0

\* C9: three opens failed, the fourth has succeeded.
C9_Witness ==
    \E t \in Threads :
        /\ pc[t] = "L95"
        /\ attempts[t] = 4
        /\ slept[t] = <<1, 2, 4>>
        /\ _reconnect_count = 0

\* A step of the loop that handles a failed open or a failed decode.
FailureStep ==
    \E t \in Threads :
        \/ pc[t] = "L88" /\ pc'[t] \in {"L103", "L129"}
        \/ pc[t] = "L107r" /\ pc'[t] = "L110"
        \/ pc[t] \in {"L110", "L111", "L112"} /\ pc'[t] # pc[t]

\* A step of stop().
StopStep ==
    /\ cpc' # cpc
    /\ cpc \in {"S41", "S43", "S44", "S45", "S47"} \/ cpc' \in {"S41", "S43"}

\* C10: a failed open, a failed decode and stop() leave the published
\* frame, frame_id, timestamp and total_frames as they are.
C10_FailuresKeepSnapshot ==
    [][(FailureStep \/ StopStep) =>
          UNCHANGED <<_latest_frame, _frame_id, _timestamp,
                      _total_frames>>]_vars

\* C10: a decode has failed after a frame was published.
C10_Witness ==
    \E t \in Threads : pc[t] = "L112" /\ _frame_id = 1

\* --------------------------------------- the engine with reader threads
\* The loop of an engine built with should_reconnect = False: it never
\* sleeps, so it has no wake-up step.
LoopOnce(t) ==
    \/ LoopTest(t)
    \/ CapTest(t)
    \/ OpenBegin(t)
    \/ OpenOk(t)
    \/ OpenFail(t)
    \/ StoreCap(t)
    \/ SetConnected(t)
    \/ ReconnectTest(t)
    \/ ReconnectLock(t)
    \/ ReconnectCount(t)
    \/ ReadBegin(t)
    \/ ReadOk(t)
    \/ ReadFail(t)
    \/ LoopRelease(t)
    \/ LoopClearCap(t)
    \/ LoopDisconnect(t)
    \/ PublishLock(t)
    \/ PublishFrame(t)
    \/ PublishId(t)
    \/ PublishTime(t)
    \/ PublishTotal(t)
    \/ LoopExit(t)

\* RTSPStream(url, should_reconnect=False).
InitReaders == Init /\ ~should_reconnect

NextReaders ==
    \/ Start
    \/ Stop
    \/ \E t \in Threads : LoopOnce(t)
    \/ \E r \in Readers : Reader(r)
    \/ Tick

\* start(), stop(), the loop and NumReaders threads in get_latest_frame().
SpecReaders == InitReaders /\ [][NextReaders]_vars

\* C7: every snapshot get_latest_frame() has returned carries the frame,
\* frame_id and timestamp that one single publish wrote together, or the
\* initial absent/0/0 triple; no field comes from the publish before or
\* after.
C7_NoTornReads == \A r \in Readers : Triple(snapshot[r]) \in published

\* C7: a reader holds the snapshot of the first publish while the loop is
\* in the middle of the second one (frame and frame_id written, timestamp
\* not yet).
C7_Witness ==
    \E r \in Readers, t \in Threads :
        /\ snapshot[r].frame_id = 1
        /\ snapshot[r].frame # NoFrame
        /\ pc[t] = "L126"
        /\ _frame_id = 2

\* Threads inside the publish whose total_frames is not yet written.
Uncompleted ==
    {t \in Threads : pc[t] \in {"L123", "L124", "L125", "L126", "L127"}}

\* C11: total_frames starts at 0, is the number of successful decodes whose
\* publish is complete, changes only by the +1 of rtsp.py:127, made by the
\* thread that holds the lock of the publish, and equals frame_id whenever
\* the lock is free.
C11_TotalFramesCountsDecodes ==
    /\ _total_frames = 0
    /\ [][/\ _total_frames' = nReads' - Cardinality(Uncompleted')
          /\ _lock' = Free => _total_frames' = _frame_id'
          /\ \/ _total_frames' = _total_frames
             \/ /\ _total_frames' = _total_frames + 1
                /\ \E t \in Threads :
                     /\ pc[t] = "L127"
                     /\ _lock = <<"loop", t>>
                     /\ _frame_id = _total_frames + 1
                     /\ _lock' = Free]_vars

\* C11: the second frame is published, counted, and the lock is free again.
C11_Witness ==
    /\ _total_frames = 2
    /\ _frame_id = 2
    /\ nReads = 2
    /\ _lock = Free

\* Positions of the loop inside a critical section (rtsp.py:97, 124-127).
InCritical(t) == pc[t] \in {"L97", "L124", "L125", "L126", "L127"}

\* C12: the lock is held only by a loop thread inside rtsp.py:97 or
\* rtsp.py:124-127 or by a reader inside rtsp.py:51-54, never by the
\* controller; no thread inside an open, a read or a sleep holds it, and no
\* time passes while it is held.
C12_LockNeverHeldAcrossIO ==
    /\ \A t \in Threads :
         /\ _lock = <<"loop", t>> <=> InCritical(t)
         /\ (pc[t] \in {"L88", "L107r"} \/ Sleeping(t)) => _lock # <<"loop", t>>
    /\ \A r \in Readers :
         _lock = <<"reader", r>> <=> rpc[r] \in {"R51", "R52", "R53", "R54"}
    /\ \/ _lock = Free
       \/ \E t \in Threads : _lock = <<"loop", t>>
       \/ \E r \in Readers : _lock = <<"reader", r>>
    /\ _lock # Free => ~ENABLED Tick

\* C12: the loop is inside the publish while stop() waits in its join.
C12_Witness ==
    \E t \in Threads :
        /\ _lock = <<"loop", t>>
        /\ pc[t] = "L125"
        /\ cpc = "S41"

\* Where a loop that has slept with the event set may be: still asleep, at
\* the while test, or at its exit.
Leaving(t) == Sleeping(t) \/ pc[t] \in {"L82", "L129"}

\* C13: a loop that is asleep, or has just woken, with the event set stays
\* asleep or goes through the while test to its exit and ends; the event
\* stays set until it has ended, and it makes no open and no decode attempt.
C13_CancelledSleepLeadsToExit ==
    [][\A t \in Threads :
         (Leaving(t) /\ _stop_event /\ (Sleeping(t) \/ slept[t] # <<>>)) =>
            /\ Leaving(t)' \/ pc'[t] = "done"
            /\ Sleeping(t) => (Sleeping(t)' \/ pc'[t] = "L82")
            /\ pc[t] = "L82" => pc'[t] \in {"L82", "L129"}
            /\ IsAlive(t)' => _stop_event'
            /\ attempts'[t] <= attempts[t]
            /\ nOpens' = nOpens
            /\ nReads' = nReads]_vars

\* C13: stop() set the event while the loop was asleep and is still in its
\* join; the loop has woken and is at its exit.
C13_Witness ==
    \E t \in Threads :
        /\ sleepAtStop
        /\ cpc = "S41"
        /\ pc[t] = "L129"
        /\ slept[t] # <<>>

\* C14: stop() releases the handle (rtsp.py:44) or clears _cap (rtsp.py:45)
\* only when no loop thread is alive.
C14_LoopOwnsHandle ==
    [][(\/ cpc = "S44" /\ cpc' = "S45"
        \/ cpc = "S45" /\ cpc' = "S47") => Alive = {}]_vars

\* C15: connected implies that _cap holds a handle that is open; connected
\* is false before the first successful open and once the loop has ended
\* and no stop() is under way.
C15_ConnectedMeansOpenHandle ==
    /\ _connected => (_cap # None /\ isOpened(_cap))
    /\ nOpens = 0 => ~_connected
    /\ (Alive = {} /\ cpc = "idle") => ~_connected

\* C16: a snapshot with frame_id = k >= 1 carries the reconnect_count that
\* held when frame k was published.
C16_CountPublishedWithFrame ==
    \A r \in Readers :
        snapshot[r].frame_id >= 1 =>
            snapshot[r].reconnect_count =
                countAtPublish[snapshot[r].frame_id]

\* --------------------- the engine on a decoder that reuses its array
\* The engine with reader threads, on a decoder whose read() may return
\* the array it returned before.
NextBuffers ==
    \/ NextReaders
    \/ \E t \in Threads : ReadOkReused(t)

SpecBuffers == InitReaders /\ [][NextBuffers]_vars

\* C17: the array of a snapshot that get_latest_frame() has returned holds
\* what it held when it was returned.
C17_HandedOutBufferUnchanged ==
    \A r \in Readers :
        snapshot[r].frame # NoFrame =>
            pixels[snapshot[r].frame] = handed[r]

\* C18: a start() that finds no loop alive clears the event and leaves
\* exactly one loop alive, at the top of _reader_loop, with the published
\* frame, frame_id, timestamp, total_frames and reconnect_count as they
\* were; a loop that has opened the transport goes on to count the open
\* exactly when a frame was ever decoded, and counting it adds exactly 1.
C18_RestartCarriesOver ==
    [][/\ (cpc = "S30" /\ cpc' = "idle" /\ ~ThreadRunning) =>
            /\ ~_stop_event'
            /\ Alive = {}
            /\ Cardinality(Alive') = 1
            /\ pc'[_thread'] = "L82"
            /\ UNCHANGED <<_latest_frame, _frame_id, _timestamp,
                           _total_frames, _reconnect_count>>
       /\ \A t \in Threads :
            /\ (pc[t] = "L95" /\ pc'[t] # "L95") =>
                 IF _total_frames > 0
                 THEN pc'[t] = "L96"
                 ELSE pc'[t] = "L107" /\ UNCHANGED _reconnect_count
            /\ pc[t] = "L96" => pc'[t] \in {"L96", "L97"}
            /\ (pc[t] = "L97" /\ pc'[t] # "L97") =>
                 /\ pc'[t] = "L107"
                 /\ _reconnect_count' = _reconnect_count + 1]_vars

\* C18: a run started after the first frame was published has made its
\* first open, and the open was counted; the frame is the one the earlier
\* run published.
C18_Witness ==
    \E t \in Threads :
        /\ pc[t] = "L107"
        /\ startId[t] = 1
        /\ attempts[t] = 1
        /\ _reconnect_count = 1
        /\ _frame_id = 1
        /\ _latest_frame = <<1, 1>>

\* C19: when start() returns, the event is clear and a loop is alive.
C19_StartNeverSwallowed ==
    [][(cpc = "S30" /\ cpc' = "idle") =>
          (~_stop_event' /\ Alive' # {})]_vars

\* C20: the loop calls _cap.read() (rtsp.py:107) and _cap.release()
\* (rtsp.py:110) only while _cap holds a handle, and no loop thread ends by
\* an unhandled error.
C20_LoopNeverUsesAbsentHandle ==
    \A t \in Threads :
        /\ pc[t] \in {"L107", "L110"} => _cap # None
        /\ pc[t] # "crashed"

====
